---- MODULE Spec2Model ----
(***************************************************************************)
(* Model of the post-mortem diagnostic core of the ROCr debug agent:       *)
(*   - src/src/HSAHandleMemoryFault.cpp : the fault-wave scan              *)
(*   - src/src/code_object.cpp          : code object open, symbol index,  *)
(*                                        debug-info index, disassembly    *)
(***************************************************************************)
EXTENDS Integers, Sequences, FiniteSets, TLC

(***************************************************************************)
(* Bounds of the model.                                                    *)
(***************************************************************************)
MaxQueues == 2
MaxWaves == 3
MaxScans == 2
MaxOpens == 2
MaxSyms == 2
MaxVisits == 2
MaxLineEntries == 2
MaxCURanges == 2
MaxCalls == 2
MaxMoves == 2
MaxPhdrs == 2
MaxSrcEntries == 3

(***************************************************************************)
(* Program constants.                                                      *)
(***************************************************************************)
TrapInstructionSize == 8

VARIABLES
  agentStatus,   \* pAgent->agentStatus
  pQueueList,    \* pAgent->pQueueList, each queue with its pWaveList
  faultyWaves,   \* the map returned by the last FindFaultyWaves call
  nScans,        \* number of FindFaultyWaves calls that have returned
  \* --- environment of one code object (fixed after construction) ---
  ndebug,        \* the build defines NDEBUG (agent_assert compiled out)
  m_uri,         \* the URI, tokenized: protocol, offset and size parameters
  m_load_address,
  fileExists,    \* the file named by the URI's path can be opened
  fileBytes,     \* its contents
  memBytes,      \* device memory readable at addresses 1..Len(memBytes)
  symtab,        \* symbols of the code object image, in section order
  dwarf,         \* debug information of the code object image
  layout,        \* the loaded program: instruction size, end of readable memory
  \* --- the code_object_t ---
  m_fd,          \* std::optional<int>: NoFd or a descriptor
  m_mem_size,
  m_symbol_map,  \* std::optional<std::map>: [has, map]
  m_line_number_map,
  m_compilation_unit_low_high_pc_map,
  \* --- the process ---
  fds,           \* descriptors created so far: fd -> bytes written to it
  nOpens,        \* number of open() calls made
  nIO,           \* file opens, device-memory reads and temporary files so far
  openExit,      \* where the last open() returned (the warning it logged)
  ctl,           \* "idle", inside a loop, "aborted" (assertion) or "crashed"
  invalidDeref,  \* a disengaged optional has been dereferenced
  symQuery,      \* the address passed to the last find_symbol
  symResult,     \* what the last find_symbol returned
  \* --- locals of load_debug_info and disassemble ---
  pc,            \* disassemble's target address
  cu_offset,     \* load_debug_info's position in the list of compilation units
  visits,        \* how often the loop body ran for each compilation unit
  start_pc,
  end_pc,
  listing,       \* what the last disassemble wrote to agent_out
  \* --- the memory-fault handler and its globals ---
  g_debugAgentInitialSuccess,
  g_gdbAttached,
  event_type,        \* event.event_type of the event being delivered
  pDebugAgentEvent,  \* _r_rocm_debug_info.pDebugAgentEvent: "nullptr" or its eventType
  processStatus,     \* what ProcessQueueWaveStates returns for each queue
  debugAgentAccessLock,  \* "free" or "held"
  handlerReturn,     \* the status the last handler call returned
  handlerOutput,     \* what the last handler call printed or triggered
  handlerAcquired,   \* the last handler call locked debugAgentAccessLock
  nCalls,            \* number of handler calls made
  \* --- life cycle of code objects ---
  closes,        \* descriptor -> number of ::close calls made on it
  movedFrom,     \* number of live moved-from code objects
  nMoves,        \* number of move-constructions made
  saveResult,    \* what the last save returned ("none" before any)
  savedFile,     \* the output file of the last save: [exists, bytes]
  saveIO         \* what the system calls of the last save did

varsFault == <<agentStatus, pQueueList, faultyWaves, nScans>>

varsEnv == <<ndebug, m_uri, m_load_address, fileExists, fileBytes, memBytes,
             symtab, dwarf, layout>>

varsObj == <<m_fd, m_mem_size, m_symbol_map, m_line_number_map,
             m_compilation_unit_low_high_pc_map>>

varsProc == <<fds, nOpens, nIO, openExit, ctl, invalidDeref, symQuery, symResult>>

varsDis == <<pc, cu_offset, visits, start_pc, end_pc, listing>>

varsHandler == <<g_debugAgentInitialSuccess, g_gdbAttached, event_type,
                 pDebugAgentEvent, processStatus, debugAgentAccessLock,
                 handlerReturn, handlerOutput, handlerAcquired, nCalls>>

varsLife == <<closes, movedFrom, nMoves, saveResult, savedFile, saveIO>>

vars == <<varsFault, varsEnv, varsObj, varsProc, varsDis, varsHandler, varsLife>>

(***************************************************************************)
(* Helpers.                                                                *)
(***************************************************************************)
Range(s) == {s[i] : i \in DOMAIN s}

RECURSIVE SumOver(_, _)
SumOver(f, S) ==
  IF S = {} THEN 0
  ELSE LET x == CHOOSE y \in S : TRUE IN f[x] + SumOver(f, S \ {x})

EmptyMap == [k \in {} |-> 0]

MapPut(m, k, v) == [x \in DOMAIN m \cup {k} |-> IF x = k THEN v ELSE m[x]]

(***************************************************************************)
(* Wave state store (HSAHandleMemoryFault.cpp).                            *)
(***************************************************************************)
\* trapsts values: bit 0 stands for any other trap bit, bit 1 for XNACK_ERROR.
TrapStsValues == {0, 1, 2}

SQ_WAVE_TRAPSTS_XNACK_ERROR(trapsts) == (trapsts \div 2) % 2 = 1

InitialPCs == {0, 8}

WaveValues == [pc : InitialPCs, trapsts : TrapStsValues]

RECURSIVE WaveLists(_)
WaveLists(n) ==
  IF n = 0 THEN {<<>>}
  ELSE {<<>>} \cup {<<w>> \o rest : w \in WaveValues, rest \in WaveLists(n - 1)}

\* Queue lists of at most nq queues holding at most nw waves in total.
RECURSIVE QueueLists(_, _)
QueueLists(nq, nw) ==
  IF nq = 0 THEN {<<>>}
  ELSE {<<>>} \cup
       UNION {{<<[queueStatus |-> "QUEUE_STATUS_ACTIVE", pWaveList |-> wl]>> \o rest :
                 rest \in QueueLists(nq - 1, nw - Len(wl))} :
              wl \in WaveLists(nw)}

\* The (queue, wave) positions in the order the nested while loops meet them.
RECURSIVE WavesOfQueue(_, _, _)
WavesOfQueue(ql, q, w) ==
  IF w > Len(ql[q].pWaveList) THEN <<>>
  ELSE <<<<q, w>>>> \o WavesOfQueue(ql, q, w + 1)

RECURSIVE TraversalOrder(_, _)
TraversalOrder(ql, q) ==
  IF q > Len(ql) THEN <<>>
  ELSE WavesOfQueue(ql, q, 1) \o TraversalOrder(ql, q + 1)

AdvancePC(old_pc) == old_pc + TrapInstructionSize

\* Mutant of UpdateFaultyWaves: a later wave replaces the representative.
UpdateFaultyWavesLast(fw, key, pWave) ==
  IF key \in DOMAIN fw
  THEN [fw EXCEPT ![key] = [count |-> @.count + 1, wave |-> pWave]]
  ELSE MapPut(fw, key, [count |-> 1, wave |-> pWave])

\* faultyWaves.find / it->second.first++ / faultyWaves.insert
UpdateFaultyWaves(fw, key, pWave) ==
  IF key \in DOMAIN fw
  THEN [fw EXCEPT ![key] = [count |-> @.count + 1, wave |-> @.wave]]
  ELSE MapPut(fw, key, [count |-> 1, wave |-> pWave])

\* Mutant of MarkQueue: every queue of the agent is marked failed.
MarkQueueAll(ql, q) ==
  [i \in DOMAIN ql |-> [ql[i] EXCEPT !.queueStatus = "QUEUE_STATUS_FAILURE"]]

MarkQueue(ql, q) == [ql EXCEPT ![q].queueStatus = "QUEUE_STATUS_FAILURE"]

\* The two nested while loops over queues and waves.
RECURSIVE ScanWaves(_, _, _)
ScanWaves(ql, fw, order) ==
  IF order = <<>> THEN [queues |-> ql, map |-> fw]
  ELSE LET q == Head(order)[1]
           w == Head(order)[2]
           wave == ql[q].pWaveList[w]
       IN IF SQ_WAVE_TRAPSTS_XNACK_ERROR(wave.trapsts)
          THEN LET newpc == AdvancePC(wave.pc)
                   ql1 == [ql EXCEPT ![q].pWaveList[w].pc = newpc]
                   ql2 == MarkQueue(ql1, q)
               IN ScanWaves(ql2, UpdateFaultyWaves(fw, newpc, <<q, w>>), Tail(order))
          ELSE ScanWaves(ql, fw, Tail(order))

\* FindFaultyWaves: returns the map and leaves the store as 'queues'.
FindFaultyWavesResult(status, ql) ==
  IF status = "AGENT_STATUS_UNSUPPORTED"
  THEN [queues |-> ql, map |-> EmptyMap]
  ELSE ScanWaves(ql, EmptyMap, TraversalOrder(ql, 1))

IsFaulty(ql, q, w) == SQ_WAVE_TRAPSTS_XNACK_ERROR(ql[q].pWaveList[w].trapsts)

Positions(ql) == Range(TraversalOrder(ql, 1))

FaultyPositions(ql) == {p \in Positions(ql) : IsFaulty(ql, p[1], p[2])}

(***************************************************************************)
(* Code object (code_object.cpp).                                          *)
(***************************************************************************)
NoFd == 0
Absent == -1    \* the URI has no such parameter
Invalid == -2   \* the parameter's value makes std::stoul throw

NoOptional == [has |-> FALSE, map |-> EmptyMap]

\* A URI is kept as open() sees it after tokenizing: the lower-cased protocol
\* and the values of the offset and size parameters.
Uris == [protocol : {"file", "memory", "http"},
         offset : {Absent, Invalid, 1},
         size : {Absent, 0, 2}]

(* Image bytes.  The image format read by libelf is abridged to:           *)
(*   byte 1          ElfMagic for an ELF image                             *)
(*   byte i + 2      program header i: PhNull (not PT_LOAD),               *)
(*                   PhCorrupt (gelf_getphdr fails), otherwise PT_LOAD     *)
(*                   with p_vaddr + p_memsz = SegmentEnd(i, byte)          *)
ElfMagic == 1
PhNull == 0
PhCorrupt == 3

IsElf(bytes) == Len(bytes) >= 1 /\ bytes[1] = ElfMagic

PhNum(bytes) == Len(bytes) - 1

SegmentEnd(i, b) == 4 * (i + 1) + b

Max(a, b) == IF a >= b THEN a ELSE b

Min(a, b) == IF a <= b THEN a ELSE b

\* The for loop over program headers: [ok, size].
RECURSIVE ScanPhdrs(_, _, _)
ScanPhdrs(bytes, i, size) ==
  IF i >= PhNum(bytes) THEN [ok |-> TRUE, size |-> size]
  ELSE LET b == bytes[i + 2]
       IN IF b = PhCorrupt THEN [ok |-> FALSE, size |-> size]
          ELSE IF b = PhNull THEN ScanPhdrs(bytes, i + 1, size)
          ELSE ScanPhdrs(bytes, i + 1, Max(size, SegmentEnd(i, b)))

\* file.seekg (offset); buffer.resize (size); file.read (&buffer[0], size):
\* bytes past the end of the file stay at the value resize gave them.
ReadAt(bytes, offset, size) ==
  [i \in 1..size |-> IF offset + i <= Len(bytes) THEN bytes[offset + i] ELSE 0]

\* The try block of open(): what it leaves in 'buffer', or where it returns.
\* exit "" means control reaches the creation of the temporary file.
Acquire(uri, memOk) ==
  IF uri.offset = Invalid \/ uri.size = Invalid
  THEN [exit |-> "", buffer |-> <<>>, io |-> 0]       \* caught by catch (...)
  ELSE
  LET offset == IF uri.offset = Absent THEN 0 ELSE uri.offset
      size == IF uri.size = Absent THEN 0 ELSE uri.size
  IN IF uri.size # Absent /\ size = 0
     THEN [exit |-> "return: size is zero", buffer |-> <<>>, io |-> 0]
     ELSE IF uri.protocol = "file"
     THEN IF ~fileExists
          THEN [exit |-> "could not open", buffer |-> <<>>, io |-> 1]
          ELSE IF size = 0
          THEN IF Len(fileBytes) < offset
               THEN [exit |-> "file size < offset", buffer |-> <<>>, io |-> 1]
               ELSE [exit |-> "", io |-> 1,
                     buffer |-> ReadAt(fileBytes, offset, Len(fileBytes) - offset)]
          ELSE [exit |-> "", io |-> 1, buffer |-> ReadAt(fileBytes, offset, size)]
     ELSE IF uri.protocol = "memory"
     THEN IF offset = 0 \/ size = 0
          THEN [exit |-> "offset and size must be != 0", buffer |-> <<>>, io |-> 0]
          ELSE IF ~memOk
          THEN [exit |-> "could not read memory", buffer |-> <<>>, io |-> 1]
          ELSE [exit |-> "", io |-> 1, buffer |-> ReadAt(memBytes, offset - 1, size)]
     ELSE [exit |-> "protocol not supported", buffer |-> <<>>, io |-> 0]

\* amd_dbgapi_read_memory succeeds when the whole range is readable.
MemReadable(uri) ==
  /\ uri.offset \notin {Absent, Invalid}
  /\ uri.size \notin {Absent, Invalid}
  /\ uri.offset >= 1
  /\ uri.offset - 1 + uri.size <= Len(memBytes)

NewFd == Cardinality(DOMAIN fds) + 1

\* The rest of open() after the try block, for one outcome of creating and
\* writing the temporary file: where it returns and what it leaves behind.
Materialize(a, tmpOk, writeOk) ==
  LET keep == [exit |-> a.exit, io |-> a.io, fds |-> fds, m_fd |-> m_fd,
               m_mem_size |-> m_mem_size]
  IN IF a.exit # "" THEN keep
     ELSE IF ~tmpOk
     THEN [keep EXCEPT !.exit = "could not create a temporary file", !.io = a.io + 1]
     ELSE IF ~writeOk
     THEN [keep EXCEPT !.exit = "could not write to the temporary file",
                       !.io = a.io + 1, !.fds = MapPut(fds, NewFd, <<>>)]
     ELSE IF ~IsElf(a.buffer)
     THEN [keep EXCEPT !.exit = "elf_getphdrnum failed", !.io = a.io + 1,
                       !.fds = MapPut(fds, NewFd, a.buffer)]
     ELSE LET r == ScanPhdrs(a.buffer, 0, m_mem_size)
          IN [exit |-> IF r.ok THEN "opened" ELSE "gelf_getphdr failed",
              io |-> a.io + 1,
              fds |-> MapPut(fds, NewFd, a.buffer),
              m_fd |-> IF r.ok THEN NewFd ELSE m_fd,
              m_mem_size |-> r.size]

\* Every way open() can end for a URI in the current state.
OpenOutcomes(uri) ==
  {Materialize(Acquire(uri, MemReadable(uri)), tmpOk, writeOk) :
     tmpOk \in BOOLEAN, writeOk \in BOOLEAN}

\* code_object_t::open
open ==
  /\ ctl = "idle"
  /\ nOpens < MaxOpens
  /\ nOpens' = nOpens + 1
  /\ \E o \in OpenOutcomes(m_uri) :
       /\ openExit' = o.exit
       /\ nIO' = nIO + o.io
       /\ fds' = o.fds
       /\ m_fd' = o.m_fd
       /\ m_mem_size' = o.m_mem_size
  /\ UNCHANGED <<varsFault, varsHandler, varsLife, varsEnv, m_symbol_map, m_line_number_map,
                 m_compilation_unit_low_high_pc_map, ctl, invalidDeref, symQuery,
                 symResult, varsDis>>

\* std::optional<int>::has_value, as code_object_t::is_open reports it.
is_open == m_fd # NoFd

(***************************************************************************)
(* Symbol index.                                                           *)
(***************************************************************************)
SymbolNames == {"f", "_Z1gv"}

\* abi::__cxa_demangle: a mangled name is replaced, any other name is kept.
Demangle(name) == IF name = "_Z1gv" THEN "g()" ELSE name

\* Kinds of symbol: a defined function, an undefined function (SHN_UNDEF),
\* a defined symbol that is no function.
SymbolKinds == {"FUNC", "FUNC_UNDEF", "OBJECT"}

Symbols == [kind : SymbolKinds, st_value : {0, 2}, st_size : {0, 1, 4},
            st_name : SymbolNames]

RECURSIVE SeqsUpTo(_, _)
SeqsUpTo(S, n) ==
  IF n = 0 THEN {<<>>}
  ELSE {<<>>} \cup {<<x>> \o rest : x \in S, rest \in SeqsUpTo(S, n - 1)}

\* Mutant of SymbolMapInsert: a later symbol always replaces an earlier one.
SymbolMapInsertLast(map, sym, load) ==
  IF sym.kind # "FUNC" THEN map
  ELSE MapPut(map, load + sym.st_value, [name |-> sym.st_name, size |-> sym.st_size])

\* One iteration of the loop over a symbol table: emplace, then replace the
\* entry when the new symbol is larger.
SymbolMapInsert(map, sym, load) ==
  IF sym.kind # "FUNC" THEN map
  ELSE LET key == load + sym.st_value
       IN IF key \notin DOMAIN map
          THEN MapPut(map, key, [name |-> sym.st_name, size |-> sym.st_size])
          ELSE IF sym.st_size > map[key].size
          THEN [map EXCEPT ![key] = [name |-> sym.st_name, size |-> sym.st_size]]
          ELSE map

RECURSIVE SlurpSymbols(_, _, _)
SlurpSymbols(map, syms, load) ==
  IF syms = <<>> THEN map
  ELSE SlurpSymbols(SymbolMapInsert(map, Head(syms), load), Tail(syms), load)

NoSymbol == [found |-> FALSE, name |-> "", value |-> 0, size |-> 0]

\* std::map::upper_bound followed by std::prev: the greatest key <= address.
KeysUpTo(map, address) == {k \in DOMAIN map : k <= address}

GreatestKey(K) == CHOOSE k \in K : \A j \in K : j <= k

\* The lookup of find_symbol in a built symbol map.
LookupSymbol(map, address) ==
  IF KeysUpTo(map, address) = {} THEN NoSymbol
  ELSE LET symbol_value == GreatestKey(KeysUpTo(map, address))
           symbol == map[symbol_value]
       IN IF address < symbol_value + symbol.size
          THEN [found |-> TRUE, name |-> Demangle(symbol.name),
                value |-> symbol_value, size |-> symbol.size]
          ELSE NoSymbol

\* agent_assert (expr): with assertions compiled in, a false expr ends the
\* process; under NDEBUG the expression is not evaluated.
AssertFails(expr) == ~ndebug /\ ~expr

\* The descriptors *m_fd may yield: the held one, or, read from a disengaged
\* optional, an indeterminate value (no descriptor, or any one of the process).
BadFd == -1
DerefFd == IF m_fd # NoFd THEN {m_fd} ELSE {BadFd} \cup DOMAIN fds

\* The symbols libelf finds behind a descriptor.
SymbolsBehind(fd) == IF IsElf(fds[fd]) THEN symtab ELSE <<>>

\* code_object_t::load_symbol_map, entered with the assertion passed: the
\* possible values of m_symbol_map after it.
LoadSymbolMapOutcomes ==
  IF m_symbol_map.has THEN {m_symbol_map}
  ELSE {IF fd = BadFd THEN NoOptional
        ELSE [has |-> TRUE,
              map |-> SlurpSymbols(EmptyMap, SymbolsBehind(fd), m_load_address)] :
        fd \in DerefFd}

QueryAddresses == 7..14

Targets == {8, 40, 44, 48, 100}

NoQuery == -1

\* code_object_t::find_symbol
find_symbol(addresses) ==
  /\ ctl = "idle"
  /\ \E address \in addresses :
       IF AssertFails(is_open)
       THEN /\ ctl' = "aborted"
            /\ UNCHANGED <<m_symbol_map, invalidDeref, symQuery, symResult>>
       ELSE \E sm \in LoadSymbolMapOutcomes :
              /\ symQuery' = address
              /\ m_symbol_map' = sm
              /\ invalidDeref' = (invalidDeref \/ ~is_open \/ ~sm.has)
              /\ IF sm.has
                 THEN /\ symResult' = LookupSymbol(sm.map, address)
                      /\ UNCHANGED ctl
                 ELSE \* m_symbol_map-> on a disengaged optional
                      \/ /\ ctl' = "crashed"
                         /\ UNCHANGED symResult
                      \/ /\ symResult' = NoSymbol
                         /\ UNCHANGED ctl
  /\ UNCHANGED <<varsFault, varsHandler, varsLife, varsEnv, m_fd, m_mem_size, m_line_number_map,
                 m_compilation_unit_low_high_pc_map, fds, nOpens, nIO, openExit,
                 varsDis>>

(***************************************************************************)
(* Debug-info index.                                                       *)
(***************************************************************************)
\* std::map::emplace: an existing key keeps its value.
MapEmplace(m, k, v) == IF k \in DOMAIN m THEN m ELSE MapPut(m, k, v)

\* The debug information libdw finds behind a descriptor.
DwarfBehind(fd) == fd # BadFd /\ IsElf(fds[fd]) /\ dwarf.present

\* The for loop over one unit's line entries: entries with a zero address or
\* a zero line number are left out.
RECURSIVE AddLines(_, _, _)
AddLines(map, lines, load) ==
  IF lines = <<>> THEN map
  ELSE LET l == Head(lines)
       IN AddLines(IF l.addr # 0 /\ l.line # 0
                   THEN MapEmplace(map, load + l.addr, [file |-> l.file, line |-> l.line])
                   ELSE map,
                   Tail(lines), load)

\* code_object_t::disassemble up to and including its call of
\* load_debug_info, up to the loop over the compilation units.
disassemble_call(targets) ==
  /\ ctl = "idle"
  /\ start_pc' = 0
  /\ end_pc' = 0
  /\ listing' = <<>>
  /\ \E target \in targets :
       /\ pc' = target
       /\ IF AssertFails(is_open)
          THEN /\ ctl' = "aborted"
               /\ UNCHANGED <<m_line_number_map, m_compilation_unit_low_high_pc_map,
                              invalidDeref, cu_offset, visits>>
          ELSE IF m_line_number_map.has /\ m_compilation_unit_low_high_pc_map.has
          THEN /\ ctl' = "report"
               /\ UNCHANGED <<m_line_number_map, m_compilation_unit_low_high_pc_map,
                              invalidDeref, cu_offset, visits>>
          ELSE \E fd \in DerefFd :
                 /\ invalidDeref' = (invalidDeref \/ ~is_open)
                 /\ IF ~DwarfBehind(fd)
                    THEN /\ ctl' = "report"
                         /\ UNCHANGED <<m_line_number_map,
                                        m_compilation_unit_low_high_pc_map,
                                        cu_offset, visits>>
                    ELSE /\ m_line_number_map' = [has |-> TRUE, map |-> EmptyMap]
                         /\ m_compilation_unit_low_high_pc_map' =
                              [has |-> TRUE, map |-> EmptyMap]
                         /\ cu_offset' = 0
                         /\ visits' = [i \in DOMAIN dwarf.cus |-> 0]
                         /\ ctl' = "dbg_loop"
  /\ UNCHANGED <<varsFault, varsHandler, varsLife, varsEnv, m_fd, m_mem_size, m_symbol_map, fds, nOpens,
                 nIO, openExit, symQuery, symResult>>

\* One evaluation of the while condition of load_debug_info and, when
\* dwarf_nextcu finds a unit, one run of the loop body.
load_debug_info_step ==
  /\ ctl = "dbg_loop"
  /\ IF cu_offset >= Len(dwarf.cus)
     THEN /\ ctl' = "report"
          /\ UNCHANGED <<m_line_number_map, m_compilation_unit_low_high_pc_map,
                         cu_offset, visits>>
     ELSE LET cu == dwarf.cus[cu_offset + 1]
              next_offset == cu_offset + 1
          IN /\ visits[cu_offset + 1] < MaxVisits
             /\ visits' = [visits EXCEPT ![cu_offset + 1] = @ + 1]
             /\ UNCHANGED ctl
             /\ IF ~cu.die_ok
                THEN UNCHANGED <<m_line_number_map,
                                 m_compilation_unit_low_high_pc_map, cu_offset>>
                ELSE /\ m_compilation_unit_low_high_pc_map' =
                          IF cu.has_pc
                          THEN [m_compilation_unit_low_high_pc_map EXCEPT
                                  !.map = MapEmplace(@, m_load_address + cu.lowpc,
                                                     m_load_address + cu.highpc)]
                          ELSE m_compilation_unit_low_high_pc_map
                     /\ IF ~cu.lines_ok
                        THEN UNCHANGED <<m_line_number_map, cu_offset>>
                        ELSE /\ m_line_number_map' =
                                  [m_line_number_map EXCEPT
                                     !.map = AddLines(@, cu.lines, m_load_address)]
                             /\ cu_offset' = next_offset
  /\ UNCHANGED <<varsFault, varsHandler, varsLife, varsEnv, m_fd, m_mem_size, m_symbol_map, fds, nOpens,
                 nIO, openExit, invalidDeref, symQuery, symResult, pc, start_pc,
                 end_pc, listing>>

(***************************************************************************)
(* Disassembly report.                                                     *)
(***************************************************************************)
context_byte_size == 32

\* The do/while walk back from upper_bound (pc): the first key, going down,
\* that is context_byte_size or more below pc, or else the smallest key.
WalkBack(lnmap, target) ==
  LET below == KeysUpTo(lnmap, target)
      far == {k \in below : target - k >= context_byte_size}
  IN IF far # {} THEN GreatestKey(far)
     ELSE CHOOSE k \in below : \A j \in below : k <= j

WindowStart(lnmap, target) ==
  IF KeysUpTo(lnmap, target) # {} THEN WalkBack(lnmap, target) ELSE target

\* Mutant of ClampWindow: only the start of the window is clamped.
ClampWindowStartOnly(cumap, target, start, end) ==
  IF KeysUpTo(cumap, target) = {} THEN [start |-> start, end |-> end]
  ELSE LET low_pc == GreatestKey(KeysUpTo(cumap, target))
           high_pc == cumap[low_pc]
       IN IF target < high_pc
          THEN [start |-> Max(start, low_pc), end |-> end]
          ELSE [start |-> start, end |-> end]

\* The clamp of start_pc and end_pc to the unit found by upper_bound (pc).
ClampWindow(cumap, target, start, end) ==
  IF KeysUpTo(cumap, target) = {} THEN [start |-> start, end |-> end]
  ELSE LET low_pc == GreatestKey(KeysUpTo(cumap, target))
           high_pc == cumap[low_pc]
       IN IF target < high_pc
          THEN [start |-> Max(start, low_pc), end |-> Min(end, high_pc)]
          ELSE [start |-> start, end |-> end]

Window(lnmap, cumap, target) ==
  ClampWindow(cumap, target, WindowStart(lnmap, target), target + context_byte_size)

\* The while (--first_line > prev_line_number) loop and the ++first_line
\* after it: the first source line to print.
RECURSIVE FirstLine(_, _, _, _)
FirstLine(lnmap, file, first_line, prev_line) ==
  IF first_line - 1 > prev_line
  THEN IF \E k \in DOMAIN lnmap :
            lnmap[k].file = file /\ lnmap[k].line = first_line - 1
       THEN first_line
       ELSE FirstLine(lnmap, file, first_line - 1, prev_line)
  ELSE first_line

\* What one iteration prints before the instruction, for the line entry e.
SourceBlock(lnmap, e, prev) ==
  (IF e.file # prev.file THEN <<[kind |-> "file", file |-> e.file, n |-> 0]>> ELSE <<>>)
  \o
  (IF e.line # prev.line
   THEN LET first == IF e.file = prev.file /\ e.line > prev.line
                     THEN FirstLine(lnmap, e.file, e.line, prev.line)
                     ELSE e.line
        IN [i \in 1..(e.line - first + 1) |->
              [kind |-> "line", file |-> e.file, n |-> first + i - 1]]
   ELSE <<>>)

\* The for loop of disassemble from addr to end.
RECURSIVE Render(_, _, _, _, _)
Render(lnmap, addr, end, target, prev) ==
  IF addr >= end THEN <<>>
  ELSE LET hit == addr \in DOMAIN lnmap
           block == IF hit THEN SourceBlock(lnmap, lnmap[addr], prev) ELSE <<>>
           now == IF hit THEN lnmap[addr] ELSE prev
       IN IF addr >= layout.readable_end
          THEN block \o <<[kind |-> "cannot access memory", file |-> "", n |-> addr]>>
          ELSE block
               \o <<[kind |-> IF addr = target THEN "=>" ELSE "insn",
                     file |-> "", n |-> addr]>>
               \o Render(lnmap, addr + layout.insn_size, end, target, now)

\* The rest of code_object_t::disassemble, after load_debug_info returned.
disassemble_report ==
  /\ ctl = "report"
  /\ LET built == m_line_number_map.has /\ m_compilation_unit_low_high_pc_map.has
         \* read through a disengaged optional, the maps are indeterminate
         lnmap == IF built THEN m_line_number_map.map ELSE EmptyMap
         cumap == IF built THEN m_compilation_unit_low_high_pc_map.map ELSE EmptyMap
         w == Window(lnmap, cumap, pc)
     IN \/ /\ ~built
           /\ invalidDeref' = TRUE
           /\ ctl' = "crashed"
           /\ UNCHANGED <<m_symbol_map, symQuery, symResult, start_pc, end_pc, listing>>
        \/ \E sm \in LoadSymbolMapOutcomes :
             /\ invalidDeref' = (invalidDeref \/ ~built \/ ~is_open \/ ~sm.has)
             /\ m_symbol_map' = sm
             /\ symQuery' = pc
             /\ symResult' = IF sm.has THEN LookupSymbol(sm.map, pc) ELSE NoSymbol
             /\ start_pc' = w.start
             /\ end_pc' = w.end
             /\ listing' = Render(lnmap, w.start, w.end, pc, [file |-> "", line |-> 0])
             /\ ctl' = "idle"
  /\ UNCHANGED <<varsFault, varsHandler, varsLife, varsEnv, m_fd, m_mem_size, m_line_number_map,
                 m_compilation_unit_low_high_pc_map, fds, nOpens, nIO, openExit,
                 pc, cu_offset, visits>>

\* The state after code_object_t's constructor.
InitObject ==
  /\ m_fd = NoFd
  /\ m_mem_size = 0
  /\ m_symbol_map = NoOptional
  /\ m_line_number_map = NoOptional
  /\ m_compilation_unit_low_high_pc_map = NoOptional

InitProcess ==
  /\ fds = EmptyMap
  /\ nOpens = 0
  /\ nIO = 0
  /\ openExit = "not called"
  /\ ctl = "idle"
  /\ invalidDeref = FALSE
  /\ symQuery = NoQuery
  /\ symResult = NoSymbol
  /\ pc = 0
  /\ cu_offset = 0
  /\ visits = <<>>
  /\ start_pc = 0
  /\ end_pc = 0
  /\ listing = <<>>

\* No fault event delivered yet; no code object moved, destroyed or saved.
InitHandler ==
  /\ g_debugAgentInitialSuccess = TRUE
  /\ g_gdbAttached = FALSE
  /\ event_type = "GPU_MEMORY_FAULT_EVENT"
  /\ pDebugAgentEvent = "DEBUG_AGENT_EVENT_NONE"
  /\ processStatus = <<>>
  /\ debugAgentAccessLock = "free"
  /\ handlerReturn = "none"
  /\ handlerOutput = <<>>
  /\ handlerAcquired = FALSE
  /\ nCalls = 0

NoFile == [exists |-> FALSE, bytes |-> <<>>]

NoSaveIO == [read |-> 0, opened |-> FALSE, written |-> 0]

InitLife ==
  /\ closes = EmptyMap
  /\ movedFrom = 0
  /\ nMoves = 0
  /\ saveResult = "none"
  /\ savedFile = NoFile
  /\ saveIO = NoSaveIO

\* No code object in play (the fault-wave scan does not use one).
InitNoEnv ==
  /\ ndebug = FALSE
  /\ m_uri = [protocol |-> "file", offset |-> Absent, size |-> Absent]
  /\ m_load_address = 0
  /\ fileExists = FALSE
  /\ fileBytes = <<>>
  /\ memBytes = <<>>
  /\ symtab = <<>>
  /\ dwarf = [present |-> FALSE, cus |-> <<>>]
  /\ layout = [insn_size |-> 4, readable_end |-> 200]

FileChoices == {<<ElfMagic, 1, 2>>, <<ElfMagic, 2, PhCorrupt>>, <<0, ElfMagic, 1>>,
                <<2, 2>>}

\* Debug information used in the life-cycle specification: a unit with an
\* address interval and line entries (two of them unusable), a unit whose
\* top-level DIE cannot be read, a unit without a line table.
CuA ==
  [die_ok |-> TRUE, has_pc |-> TRUE, lowpc |-> 8, highpc |-> 56, lines_ok |-> TRUE,
   lines |-> <<[addr |-> 8, file |-> "a.c", line |-> 1],
               [addr |-> 40, file |-> "a.c", line |-> 4],
               [addr |-> 0, file |-> "a.c", line |-> 2],
               [addr |-> 44, file |-> "a.c", line |-> 0],
               [addr |-> 48, file |-> "a.c", line |-> 3]>>]

CuBadDie ==
  [die_ok |-> FALSE, has_pc |-> FALSE, lowpc |-> 0, highpc |-> 0, lines_ok |-> FALSE,
   lines |-> <<>>]

CuNoLines ==
  [die_ok |-> TRUE, has_pc |-> TRUE, lowpc |-> 96, highpc |-> 104, lines_ok |-> FALSE,
   lines |-> <<>>]

DwarfChoices ==
  {[present |-> FALSE, cus |-> <<>>],
   [present |-> TRUE, cus |-> <<CuA>>],
   [present |-> TRUE, cus |-> <<CuA, CuBadDie>>],
   [present |-> TRUE, cus |-> <<CuNoLines, CuA>>]}

InitOpen ==
  /\ ndebug \in BOOLEAN
  /\ m_uri \in Uris
  /\ m_load_address = 0
  /\ fileExists \in BOOLEAN
  /\ fileBytes \in (IF fileExists THEN FileChoices ELSE {<<>>})
  /\ memBytes = <<ElfMagic, 2, 1>>
  /\ symtab = <<[kind |-> "FUNC", st_value |-> 8, st_size |-> 4, st_name |-> "f"]>>
  /\ dwarf \in DwarfChoices
  /\ layout = [insn_size |-> 4, readable_end |-> 200]
  /\ InitObject
  /\ InitProcess
  /\ agentStatus = "AGENT_STATUS_ACTIVE"
  /\ pQueueList = <<>>
  /\ faultyWaves = EmptyMap
  /\ nScans = 0
  /\ InitHandler
  /\ InitLife

NextOpen ==
  \/ open
  \/ find_symbol({9})
  \/ disassemble_call({44, 100})
  \/ load_debug_info_step
  \/ disassemble_report

SpecOpen == InitOpen /\ [][NextOpen]_vars

\* An open code object (a valid image behind descriptor 1) whose symbol
\* table is any sequence of at most MaxSyms symbols.
OpenImage == <<ElfMagic, 1>>

InitSym ==
  /\ ndebug = TRUE
  /\ m_uri = [protocol |-> "file", offset |-> Absent, size |-> Absent]
  /\ m_load_address = 8
  /\ fileExists = TRUE
  /\ fileBytes = OpenImage
  /\ memBytes = <<>>
  /\ symtab \in SeqsUpTo(Symbols, MaxSyms)
  /\ dwarf = [present |-> FALSE, cus |-> <<>>]
  /\ layout = [insn_size |-> 4, readable_end |-> 200]
  /\ m_fd = 1
  /\ m_mem_size = ScanPhdrs(OpenImage, 0, 0).size
  /\ m_symbol_map = NoOptional
  /\ m_line_number_map = NoOptional
  /\ m_compilation_unit_low_high_pc_map = NoOptional
  /\ fds = MapPut(EmptyMap, 1, OpenImage)
  /\ nOpens = 1
  /\ nIO = 2
  /\ openExit = "opened"
  /\ ctl = "idle"
  /\ invalidDeref = FALSE
  /\ symQuery = NoQuery
  /\ symResult = NoSymbol
  /\ pc = 0
  /\ cu_offset = 0
  /\ visits = <<>>
  /\ start_pc = 0
  /\ end_pc = 0
  /\ listing = <<>>
  /\ agentStatus = "AGENT_STATUS_ACTIVE"
  /\ pQueueList = <<>>
  /\ faultyWaves = EmptyMap
  /\ nScans = 0
  /\ InitHandler
  /\ InitLife

NextSym == find_symbol(QueryAddresses)

SpecSym == InitSym /\ [][NextSym]_vars

\* An open code object whose debug-info index has been built by an earlier
\* disassemble: any line-number map of at most MaxLineEntries entries and any
\* table of at most MaxCURanges non-overlapping unit intervals.
LineAddrs == {8, 16, 44, 48, 60}

LineValues == {[file |-> "a.c", line |-> 1], [file |-> "a.c", line |-> 3],
               [file |-> "a.c", line |-> 4], [file |-> "b.c", line |-> 3]}

LineMaps ==
  UNION {[D -> LineValues] : D \in {E \in SUBSET LineAddrs : Cardinality(E) <= MaxLineEntries}}

CuIntervals == {<<0, 0>>, <<8, 48>>, <<40, 56>>, <<48, 64>>, <<8, 120>>, <<56, 120>>}

NonOverlapping(S) == \A a, b \in S : a[1] < b[1] => a[2] <= b[1]

DistinctLows(S) == \A a, b \in S : a[1] = b[1] => a = b

CuMaps ==
  {[low \in {i[1] : i \in S} |-> (CHOOSE i \in S : i[1] = low)[2]] :
     S \in {T \in SUBSET CuIntervals :
              Cardinality(T) <= MaxCURanges /\ NonOverlapping(T) /\ DistinctLows(T)}}

RECURSIVE SortedKeys(_)
SortedKeys(K) ==
  IF K = {} THEN <<>>
  ELSE LET k == CHOOSE x \in K : \A y \in K : x <= y
       IN <<k>> \o SortedKeys(K \ {k})

\* Debug information from which load_debug_info builds the two maps: one unit
\* per interval, and one unit without an interval holding the line entries.
DwarfOf(lnmap, cumap) ==
  LET lows == SortedKeys(DOMAIN cumap)
      addrs == SortedKeys(DOMAIN lnmap)
  IN [present |-> TRUE,
      cus |-> [i \in DOMAIN lows |->
                 [die_ok |-> TRUE, has_pc |-> TRUE, lowpc |-> lows[i],
                  highpc |-> cumap[lows[i]], lines_ok |-> TRUE, lines |-> <<>>]]
              \o <<[die_ok |-> TRUE, has_pc |-> FALSE, lowpc |-> 0, highpc |-> 0,
                    lines_ok |-> TRUE,
                    lines |-> [i \in DOMAIN addrs |->
                                 [addr |-> addrs[i], file |-> lnmap[addrs[i]].file,
                                  line |-> lnmap[addrs[i]].line]]]>>]

ProgramLayouts == {[insn_size |-> 4, readable_end |-> 200],
                   [insn_size |-> 8, readable_end |-> 64]}

InitWin ==
  /\ ndebug = TRUE
  /\ m_uri = [protocol |-> "file", offset |-> Absent, size |-> Absent]
  /\ m_load_address = 0
  /\ fileExists = TRUE
  /\ fileBytes = OpenImage
  /\ memBytes = <<>>
  /\ symtab = <<[kind |-> "FUNC", st_value |-> 40, st_size |-> 16, st_name |-> "f"]>>
  /\ layout \in ProgramLayouts
  /\ \E lnmap \in LineMaps, cumap \in CuMaps :
       /\ dwarf = DwarfOf(lnmap, cumap)
       /\ m_line_number_map = [has |-> TRUE, map |-> lnmap]
       /\ m_compilation_unit_low_high_pc_map = [has |-> TRUE, map |-> cumap]
  /\ m_fd = 1
  /\ m_mem_size = ScanPhdrs(OpenImage, 0, 0).size
  /\ m_symbol_map = NoOptional
  /\ fds = MapPut(EmptyMap, 1, OpenImage)
  /\ nOpens = 1
  /\ nIO = 2
  /\ openExit = "opened"
  /\ ctl = "idle"
  /\ invalidDeref = FALSE
  /\ symQuery = NoQuery
  /\ symResult = NoSymbol
  /\ pc = 0
  /\ cu_offset = 0
  /\ visits = <<>>
  /\ start_pc = 0
  /\ end_pc = 0
  /\ listing = <<>>
  /\ agentStatus = "AGENT_STATUS_ACTIVE"
  /\ pQueueList = <<>>
  /\ faultyWaves = EmptyMap
  /\ nScans = 0
  /\ InitHandler
  /\ InitLife

NextWin == disassemble_call(Targets) \/ disassemble_report

SpecWin == InitWin /\ [][NextWin]_vars

(***************************************************************************)
(* Claims about the symbol index.                                          *)
(***************************************************************************)
FuncsAt(k) ==
  {i \in DOMAIN symtab :
     symtab[i].kind = "FUNC" /\ m_load_address + symtab[i].st_value = k}

RefStarts == {k \in 0..30 : FuncsAt(k) # {}}

RefSize(k) ==
  CHOOSE z \in {symtab[i].st_size : i \in FuncsAt(k)} :
    \A i \in FuncsAt(k) : symtab[i].st_size <= z

RefNames(k) ==
  {Demangle(symtab[i].st_name) : i \in {j \in FuncsAt(k) : symtab[j].st_size = RefSize(k)}}

RefBelow(a) == {k \in RefStarts : k <= a}

RefKey(a) == CHOOSE k \in RefBelow(a) : \A j \in RefBelow(a) : j <= k

\* C9: find_symbol(a) equals the reference lookup: with k the greatest start
\* address (load address + value) of a defined function symbol that is <= a,
\* the result is k with the largest size declared at k and the name of a
\* symbol of that size when a < k + size, and 'no symbol' otherwise.
C9_FindSymbol ==
  (symQuery # NoQuery /\ ctl = "idle") =>
    IF RefBelow(symQuery) # {} /\ symQuery < RefKey(symQuery) + RefSize(RefKey(symQuery))
    THEN /\ symResult.found
         /\ symResult.value = RefKey(symQuery)
         /\ symResult.size = RefSize(RefKey(symQuery))
         /\ symResult.name \in RefNames(RefKey(symQuery))
    ELSE symResult = NoSymbol

\* Two function symbols start at one address, the larger one is met second,
\* and a lookup inside it returned it.
C9_Witness ==
  /\ Len(symtab) = 2
  /\ symtab[1].kind = "FUNC" /\ symtab[2].kind = "FUNC"
  /\ symtab[1].st_value = symtab[2].st_value
  /\ symtab[1].st_size < symtab[2].st_size
  /\ symtab[1].st_name # symtab[2].st_name
  /\ symResult.found
  /\ symResult.name = Demangle(symtab[2].st_name)
  /\ symResult.size = symtab[2].st_size
  /\ symQuery > symResult.value

(***************************************************************************)
(* Claims about the disassembly window.                                    *)
(***************************************************************************)
ReportDone == ctl = "idle" /\ listing # <<>>

CursorItems == {i \in DOMAIN listing : listing[i].kind \in {"insn", "=>", "cannot access memory"}}

OpenCalled == nOpens' = nOpens + 1

\* C3 (as stated): open on a code object that is already open performs no
\* I/O, creates no temporary resource and leaves every field unchanged.
C3_OpenIdempotent ==
  [][(OpenCalled /\ is_open) =>
       (nIO' = nIO /\ fds' = fds /\ UNCHANGED varsObj)]_vars

\* C4 (as stated): for a file URI whose size parameter is present and 0,
\* open reads the file from offset to its end, materializes those bytes and,
\* the image being well-formed, leaves the object open.
C4_ZeroSizeReadsToEnd ==
  [][(/\ OpenCalled
      /\ m_uri.protocol = "file" /\ m_uri.size = 0 /\ m_uri.offset # Invalid
      /\ fileExists
      /\ Max(m_uri.offset, 0) <= Len(fileBytes)
      /\ openExit' \notin {"could not create a temporary file",
                           "could not write to the temporary file"})
     => LET offset == Max(m_uri.offset, 0)
            bytes == SubSeq(fileBytes, offset + 1, Len(fileBytes))
        IN /\ NewFd \in DOMAIN fds'
           /\ fds'[NewFd] = bytes
           /\ (IsElf(bytes) /\ ScanPhdrs(bytes, 0, 0).ok) => m_fd' = NewFd]_vars

ElfFailures == {"elf_begin failed", "elf_getphdrnum failed", "gelf_getphdr failed"}

\* C5 (as stated): when the materialized image cannot be parsed as ELF, open
\* leaves the footprint at its prior value and still retains the materialized
\* resource, so that the object is open.
C5_ElfFailureStillOpen ==
  [][(OpenCalled /\ openExit' \in ElfFailures) =>
       (m_mem_size' = m_mem_size /\ m_fd' # NoFd /\ m_fd' \in DOMAIN fds')]_vars

\* C6 (as stated): for a URI whose scheme is neither file nor memory, open
\* creates no materialized resource and leaves the object un-opened, and no
\* later call dereferences the missing handle or an index that was not built.
C6_UnsupportedSchemeHarmless ==
  (m_uri.protocol \notin {"file", "memory"} /\ nOpens >= 1) =>
    (fds = EmptyMap /\ ~is_open /\ ~invalidDeref /\ ctl # "crashed")

\* C7 (as stated): for an open code object without debug information,
\* disassemble reads no index that was not built, starts the window at the
\* target, ends it at target + 32 and completes the report.  Assertions are
\* taken as compiled in, so that every operation made so far found the
\* object open.
C7_NoDebugInfoWindow ==
  (is_open /\ ~dwarf.present /\ ~ndebug) =>
    /\ ~invalidDeref
    /\ ctl # "crashed"
    /\ ReportDone => (start_pc = pc /\ end_pc = pc + 32)

\* C8 (as stated): the loop of load_debug_info runs its body once for each
\* compilation unit and then ends, also for a unit whose top-level DIE cannot
\* be read or which has no line table.
C8_EachUnitOnce == \A i \in DOMAIN visits : visits[i] <= 1

FindFaultyWaves ==
  /\ nScans < MaxScans
  /\ nScans' = nScans + 1
  /\ LET r == FindFaultyWavesResult(agentStatus, pQueueList)
     IN /\ pQueueList' = r.queues
        /\ faultyWaves' = r.map
  /\ UNCHANGED <<agentStatus, varsEnv, varsObj, varsProc, varsDis, varsHandler,
                 varsLife>>

InitFault ==
  /\ agentStatus \in {"AGENT_STATUS_ACTIVE", "AGENT_STATUS_UNSUPPORTED"}
  /\ pQueueList \in QueueLists(MaxQueues, MaxWaves)
  /\ faultyWaves = EmptyMap
  /\ nScans = 0
  /\ InitHandler
  /\ InitLife
  /\ InitObject
  /\ InitProcess
  /\ InitNoEnv

NextFault == FindFaultyWaves

SpecFault == InitFault /\ [][NextFault]_vars

(***************************************************************************)
(* Claims about the fault-wave scan.                                       *)
(***************************************************************************)
OldPC(p) == pQueueList[p[1]].pWaveList[p[2]].pc

\* The first faulty position, in traversal order, whose advanced PC is k.
FirstFaultyWith(k) ==
  LET order == TraversalOrder(pQueueList, 1)
      hits == {i \in DOMAIN order :
                 /\ IsFaulty(pQueueList, order[i][1], order[i][2])
                 /\ OldPC(order[i]) + 8 = k}
  IN order[CHOOSE i \in hits : \A j \in hits : i <= j]

ScanMapExact ==
  /\ DOMAIN faultyWaves' = {OldPC(p) + 8 : p \in FaultyPositions(pQueueList)}
  /\ SumOver([k \in DOMAIN faultyWaves' |-> faultyWaves'[k].count], DOMAIN faultyWaves')
       = Cardinality(FaultyPositions(pQueueList))
  /\ \A k \in DOMAIN faultyWaves' : faultyWaves'[k].wave = FirstFaultyWith(k)

\* C1 (as stated): for every agent state, the map returned by the scan has as
\* keys exactly the advanced PCs (old pc + 8) of the faulty waves, its counts
\* sum to the number of faulty waves, and each representative is the first
\* faulty wave met with that advanced PC.
C1_AsStated == [][FindFaultyWaves => ScanMapExact]_vars

\* C1 (amended): the same holds whenever the agent's instruction set is
\* supported; for an unsupported agent the scan returns the empty map.
C1_ScanMap ==
  [][FindFaultyWaves =>
       IF agentStatus = "AGENT_STATUS_UNSUPPORTED"
       THEN faultyWaves' = EmptyMap
       ELSE ScanMapExact]_vars

\* A supported agent's scan grouped two waves under one key and met another key.
C1_Witness ==
  /\ agentStatus = "AGENT_STATUS_ACTIVE"
  /\ Cardinality(DOMAIN faultyWaves) >= 2
  /\ \E k \in DOMAIN faultyWaves : faultyWaves[k].count >= 2

SameShape ==
  /\ Len(pQueueList') = Len(pQueueList)
  /\ \A q \in DOMAIN pQueueList :
        /\ Len(pQueueList'[q].pWaveList) = Len(pQueueList[q].pWaveList)
        /\ \A w \in DOMAIN pQueueList[q].pWaveList :
              pQueueList'[q].pWaveList[w].trapsts = pQueueList[q].pWaveList[w].trapsts

ScanFrame ==
  /\ SameShape
  /\ \A p \in Positions(pQueueList) :
        pQueueList'[p[1]].pWaveList[p[2]].pc =
          IF IsFaulty(pQueueList, p[1], p[2]) THEN OldPC(p) + 8 ELSE OldPC(p)
  /\ \A q \in DOMAIN pQueueList :
        pQueueList'[q].queueStatus =
          IF \E p \in FaultyPositions(pQueueList) : p[1] = q
          THEN "QUEUE_STATUS_FAILURE"
          ELSE pQueueList[q].queueStatus

\* C2 (as stated): one run of the scan advances the PC of every faulty wave
\* by 8, marks every queue holding a faulty wave failed, and changes nothing
\* else in the wave store.
C2_AsStated == [][FindFaultyWaves => ScanFrame]_vars

\* C2 (amended): that is the scan's effect for an agent whose instruction set
\* is supported; for an unsupported agent the scan changes nothing at all.
C2_ScanFrame ==
  [][FindFaultyWaves =>
       IF agentStatus = "AGENT_STATUS_UNSUPPORTED"
       THEN pQueueList' = pQueueList
       ELSE ScanFrame]_vars

\* A supported agent's scan failed one queue and left another, non-empty
\* queue and a non-faulty wave of the failed queue alone.
C2_Witness ==
  /\ agentStatus = "AGENT_STATUS_ACTIVE"
  /\ faultyWaves # EmptyMap
  /\ \E q1, q2 \in DOMAIN pQueueList :
        /\ pQueueList[q1].queueStatus = "QUEUE_STATUS_FAILURE"
        /\ \E w \in DOMAIN pQueueList[q1].pWaveList : ~IsFaulty(pQueueList, q1, w)
        /\ pQueueList[q2].queueStatus = "QUEUE_STATUS_ACTIVE"
        /\ pQueueList[q2].pWaveList # <<>>

(***************************************************************************)
(* The memory-fault handler (HSAHandleMemoryFault.cpp).                    *)
(***************************************************************************)
EventTypes == {"GPU_MEMORY_FAULT_EVENT", "OTHER_EVENT"}

\* The while loop over the queues: the index of the first queue for which
\* ProcessQueueWaveStates fails, or 0 when it succeeds for every queue.
FirstFailedQueue ==
  LET failed == {q \in DOMAIN pQueueList : ~processStatus[q]}
  IN IF failed = {} THEN 0 ELSE CHOOSE q \in failed : \A r \in failed : q <= r

\* HSADebugAgentHandleMemoryFault.  A call that finds debugAgentAccessLock
\* held waits in lock () and does not return.
HSADebugAgentHandleMemoryFault ==
  /\ nCalls < MaxCalls
  /\ handlerReturn # "blocked"
  /\ nCalls' = nCalls + 1
  /\ \E et \in EventTypes :
       /\ event_type' = et
       /\ IF ~g_debugAgentInitialSuccess \/ et # "GPU_MEMORY_FAULT_EVENT"
          THEN /\ handlerReturn' = "HSA_STATUS_ERROR"
               /\ handlerAcquired' = FALSE
               /\ handlerOutput' = <<>>
               /\ UNCHANGED <<debugAgentAccessLock, pDebugAgentEvent, pQueueList,
                              faultyWaves, nScans>>
          ELSE IF debugAgentAccessLock = "held"
          THEN /\ handlerReturn' = "blocked"
               /\ handlerAcquired' = FALSE
               /\ handlerOutput' = <<>>
               /\ UNCHANGED <<debugAgentAccessLock, pDebugAgentEvent, pQueueList,
                              faultyWaves, nScans>>
          ELSE IF pDebugAgentEvent = "nullptr"
          THEN /\ debugAgentAccessLock' = "held"
               /\ handlerReturn' = "HSA_STATUS_ERROR"
               /\ handlerAcquired' = TRUE
               /\ handlerOutput' = <<>>
               /\ UNCHANGED <<pDebugAgentEvent, pQueueList, faultyWaves, nScans>>
          ELSE /\ pDebugAgentEvent' = "DEBUG_AGENT_EVENT_MEMORY_FAULT"
               /\ handlerAcquired' = TRUE
               /\ debugAgentAccessLock' = "free"
               /\ IF g_gdbAttached
                  THEN /\ handlerReturn' = "HSA_STATUS_SUCCESS"
                       /\ handlerOutput' = <<[call |-> "TriggerGPUEvent", waves |-> EmptyMap]>>
                       /\ UNCHANGED <<pQueueList, faultyWaves, nScans>>
                  ELSE IF FirstFailedQueue # 0
                  THEN /\ handlerReturn' = "HSA_STATUS_ERROR"
                       /\ handlerOutput' = <<>>
                       /\ UNCHANGED <<pQueueList, faultyWaves, nScans>>
                  ELSE LET r == FindFaultyWavesResult(agentStatus, pQueueList)
                       IN /\ pQueueList' = r.queues
                          /\ faultyWaves' = r.map
                          /\ nScans' = nScans + 1
                          /\ handlerReturn' = "HSA_STATUS_SUCCESS"
                          /\ handlerOutput' =
                               <<[call |-> "PrintVMFaultInfo", waves |-> EmptyMap],
                                 [call |-> "PrintWaves", waves |-> r.map]>>
  /\ UNCHANGED <<agentStatus, g_debugAgentInitialSuccess, g_gdbAttached, processStatus,
                 varsEnv, varsObj, varsProc, varsDis, varsLife>>

\* Any agent with at most MaxQueues queues and MaxWaves waves, any setting of
\* the globals, any outcome of ProcessQueueWaveStates per queue.
InitHandlerCalls ==
  /\ agentStatus \in {"AGENT_STATUS_ACTIVE", "AGENT_STATUS_UNSUPPORTED"}
  /\ pQueueList \in QueueLists(MaxQueues, MaxWaves)
  /\ faultyWaves = EmptyMap
  /\ nScans = 0
  /\ g_debugAgentInitialSuccess \in BOOLEAN
  /\ g_gdbAttached \in BOOLEAN
  /\ event_type = "GPU_MEMORY_FAULT_EVENT"
  /\ pDebugAgentEvent \in {"nullptr", "DEBUG_AGENT_EVENT_NONE"}
  /\ processStatus \in [DOMAIN pQueueList -> BOOLEAN]
  /\ debugAgentAccessLock = "free"
  /\ handlerReturn = "none"
  /\ handlerOutput = <<>>
  /\ handlerAcquired = FALSE
  /\ nCalls = 0
  /\ InitLife
  /\ InitObject
  /\ InitProcess
  /\ InitNoEnv

NextHandler == HSADebugAgentHandleMemoryFault

SpecHandler == InitHandlerCalls /\ [][NextHandler]_vars

HandlerReturned == nCalls >= 1 /\ handlerReturn # "blocked"

\* The handler saw a protocol error: an event of another type, no event-info
\* record, or (having reached the scan) an agent of unsupported ISA.
ProtocolError ==
  \/ event_type # "GPU_MEMORY_FAULT_EVENT"
  \/ pDebugAgentEvent = "nullptr"
  \/ /\ agentStatus = "AGENT_STATUS_UNSUPPORTED"
     /\ ~g_gdbAttached
     /\ FirstFailedQueue = 0

\* C11 (as stated): each protocol error seen by the handler makes it return
\* a failure status without aggregating or printing any waves.
C11_ProtocolErrorFails ==
  (HandlerReturned /\ g_debugAgentInitialSuccess /\ ProtocolError) =>
    /\ handlerReturn = "HSA_STATUS_ERROR"
    /\ \A i \in DOMAIN handlerOutput : handlerOutput[i].call # "PrintWaves"

\* C16 (as stated): the lock is free whenever the handler has returned, and a
\* call that returned before acquiring the lock did not touch it.
C16_LockReleased ==
  HandlerReturned => debugAgentAccessLock = "free"

(***************************************************************************)
(* Life cycle of a code object: move construction and destruction.         *)
(* The model follows the object that holds the state; an object it was     *)
(* moved from stays alive, with m_fd reset, until it is destroyed.         *)
(***************************************************************************)
\* code_object_t::code_object_t (code_object_t &&rhs): the new object takes
\* m_load_address, m_mem_size, m_uri and m_fd; its three maps are default
\* constructed; rhs.m_fd is reset.
move_construct ==
  /\ ctl = "idle"
  /\ nMoves < MaxMoves
  /\ nMoves' = nMoves + 1
  /\ movedFrom' = movedFrom + 1
  /\ m_symbol_map' = NoOptional
  /\ m_line_number_map' = NoOptional
  /\ m_compilation_unit_low_high_pc_map' = NoOptional
  /\ UNCHANGED <<varsFault, varsHandler, varsEnv, m_fd, m_mem_size, varsProc, varsDis,
                 closes, saveResult, savedFile, saveIO>>

\* ::close (fd) as the destructor calls it.
Close(fd) == MapPut(closes, fd, IF fd \in DOMAIN closes THEN closes[fd] + 1 ELSE 1)

\* code_object_t::~code_object_t of the object that holds the state.
destructor ==
  /\ ctl = "idle"
  /\ ctl' = "destroyed"
  /\ closes' = IF m_fd # NoFd THEN Close(m_fd) ELSE closes
  /\ UNCHANGED <<varsFault, varsHandler, varsEnv, varsObj, fds, nOpens, nIO, openExit,
                 invalidDeref, symQuery, symResult, varsDis, movedFrom, nMoves,
                 saveResult, savedFile, saveIO>>

\* code_object_t::~code_object_t of a moved-from object: its m_fd is
\* disengaged, nothing is closed.
destructor_moved_from ==
  /\ movedFrom > 0
  /\ movedFrom' = movedFrom - 1
  /\ UNCHANGED <<varsFault, varsHandler, varsEnv, varsObj, varsProc, varsDis, closes,
                 nMoves, saveResult, savedFile, saveIO>>

InitLifeCycle ==
  /\ ndebug = FALSE
  /\ m_uri \in Uris
  /\ m_load_address = 0
  /\ fileExists \in BOOLEAN
  /\ fileBytes \in (IF fileExists THEN FileChoices ELSE {<<>>})
  /\ memBytes = <<ElfMagic, 2, 1>>
  /\ symtab = <<>>
  /\ dwarf = [present |-> FALSE, cus |-> <<>>]
  /\ layout = [insn_size |-> 4, readable_end |-> 200]
  /\ InitObject
  /\ InitProcess
  /\ agentStatus = "AGENT_STATUS_ACTIVE"
  /\ pQueueList = <<>>
  /\ faultyWaves = EmptyMap
  /\ nScans = 0
  /\ InitHandler
  /\ InitLife

NextLifeCycle ==
  \/ open
  \/ move_construct
  \/ destructor
  \/ destructor_moved_from

SpecLifeCycle == InitLifeCycle /\ [][NextLifeCycle]_vars

TimesClosed(fd) == IF fd \in DOMAIN closes THEN closes[fd] ELSE 0

\* C12 (as stated): every temporary resource created by open is closed at
\* most once, and while it is not closed it is owned by the one live object
\* that holds its descriptor; after the owner's destruction it is closed.
C12_OwnedAndReleasedOnce ==
  \A fd \in DOMAIN fds :
    /\ TimesClosed(fd) <= 1
    /\ TimesClosed(fd) = 0 => (ctl # "destroyed" /\ m_fd = fd)

(***************************************************************************)
(* code_object_t::save.                                                    *)
(***************************************************************************)
\* std::vector<char> buffer (size) filled by ::read (fd, ...) returning n:
\* the first n bytes come from the descriptor, the others keep the value 0.
ReadInto(bytes, n) ==
  [i \in 1..Len(bytes) |-> IF i <= n THEN bytes[i] ELSE 0]

\* Mutant of SaveReadComplete: a short read is not noticed.
SaveReadAny(n, buffer_size) == TRUE

\* The test of what ::read returned against buffer.size ().
SaveReadComplete(n, buffer_size) == n = buffer_size

\* code_object_t::save for one outcome of its system calls: 'opened' says
\* whether std::ofstream could open the output file, n is what ::read
\* returned (-1 for an error) and 'written' how many bytes reached the file.
SaveOutcome(bytes, opened, n, written) ==
  LET buffer == ReadInto(bytes, n)
      empty == [exists |-> opened, bytes |-> <<>>]
  IN IF ~SaveReadComplete(n, Len(buffer))
     THEN [result |-> "false", file |-> empty]
     ELSE IF ~opened
     THEN [result |-> "false", file |-> NoFile]
     ELSE [result |-> IF written = Len(buffer) THEN "true" ELSE "false",
           file |-> [exists |-> TRUE, bytes |-> SubSeq(buffer, 1, written)]]

save ==
  /\ ctl = "idle"
  /\ IF AssertFails(is_open)
     THEN /\ ctl' = "aborted"
          /\ UNCHANGED <<invalidDeref, saveResult, savedFile, saveIO>>
     ELSE \E fd \in DerefFd :
            /\ invalidDeref' = (invalidDeref \/ ~is_open)
            /\ IF fd = BadFd
               THEN \* lseek returns -1 and the vector's constructor throws
                    /\ ctl' = "crashed"
                    /\ UNCHANGED <<saveResult, savedFile, saveIO>>
               ELSE \E opened \in BOOLEAN, n \in -1..Len(fds[fd]),
                       written \in 0..Len(fds[fd]) :
                      LET o == SaveOutcome(fds[fd], opened, n, written)
                      IN /\ saveResult' = o.result
                         /\ savedFile' = o.file
                         /\ saveIO' = [read |-> n, opened |-> opened,
                                       written |-> IF opened /\ n = Len(fds[fd])
                                                   THEN written ELSE 0]
                         /\ UNCHANGED ctl
  /\ UNCHANGED <<varsFault, varsHandler, varsEnv, varsObj, fds, nOpens, nIO, openExit,
                 symQuery, symResult, varsDis, closes, movedFrom, nMoves>>

\* Images that open accepts: the magic byte and at most MaxPhdrs readable
\* program headers.
ImageChoices == {<<ElfMagic>> \o t : t \in SeqsUpTo({PhNull, 1, 2}, MaxPhdrs)}

\* An open code object over any image of ImageChoices, in either build.
InitSave ==
  /\ ndebug \in BOOLEAN
  /\ m_uri = [protocol |-> "file", offset |-> Absent, size |-> Absent]
  /\ m_load_address = 0
  /\ fileExists = TRUE
  /\ fileBytes \in ImageChoices
  /\ memBytes = <<>>
  /\ symtab = <<>>
  /\ dwarf = [present |-> FALSE, cus |-> <<>>]
  /\ layout = [insn_size |-> 4, readable_end |-> 200]
  /\ m_fd = 1
  /\ m_mem_size = ScanPhdrs(fileBytes, 0, 0).size
  /\ m_symbol_map = NoOptional
  /\ m_line_number_map = NoOptional
  /\ m_compilation_unit_low_high_pc_map = NoOptional
  /\ fds = MapPut(EmptyMap, 1, fileBytes)
  /\ nOpens = 1
  /\ nIO = 2
  /\ openExit = "opened"
  /\ ctl = "idle"
  /\ invalidDeref = FALSE
  /\ symQuery = NoQuery
  /\ symResult = NoSymbol
  /\ pc = 0
  /\ cu_offset = 0
  /\ visits = <<>>
  /\ start_pc = 0
  /\ end_pc = 0
  /\ listing = <<>>
  /\ agentStatus = "AGENT_STATUS_ACTIVE"
  /\ pQueueList = <<>>
  /\ faultyWaves = EmptyMap
  /\ nScans = 0
  /\ InitHandler
  /\ InitLife

NextSave == save

SpecSave == InitSave /\ [][NextSave]_vars

\* C13: for an open code object, after save returned true the written file
\* holds exactly the bytes of the materialized copy; when the copy was not
\* read in full or the output file could not be opened or written in full,
\* save returned false and raised nothing; the materialized copy is as open
\* left it.
C13_SaveRoundTrip ==
  (is_open /\ saveResult # "none") =>
    /\ saveResult = "true" =>
         (savedFile.exists /\ savedFile.bytes = fds[m_fd])
    /\ (\/ saveIO.read # Len(fds[m_fd])
        \/ ~saveIO.opened
        \/ saveIO.written # Len(fds[m_fd])) => saveResult = "false"
    /\ ctl = "idle"
    /\ fds = MapPut(EmptyMap, 1, fileBytes)

\* A save of a three-byte image that read and wrote every byte and returned
\* true.
C13_Witness ==
  /\ is_open
  /\ saveResult = "true"
  /\ Len(fds[m_fd]) = 3
  /\ savedFile.bytes = fds[m_fd]
  /\ saveIO.read = 3 /\ saveIO.written = 3

(***************************************************************************)
(* Claims about the walk back and the source-context block.                *)
(***************************************************************************)
\* No known compilation unit holds the target: the window is not clamped.
Unclamped ==
  \A low \in DOMAIN m_compilation_unit_low_high_pc_map.map :
    ~(low <= pc /\ pc < m_compilation_unit_low_high_pc_map.map[low])

\* C14 (as stated): when the line-number map has an address <= target, the
\* window start chosen before clamping is a line-map address A with
\* A <= target and target - A <= 32.
C14_WalkBackWithinContext ==
  (/\ ReportDone
   /\ m_line_number_map.has /\ m_compilation_unit_low_high_pc_map.has
   /\ KeysUpTo(m_line_number_map.map, pc) # {}
   /\ Unclamped) =>
    /\ start_pc \in DOMAIN m_line_number_map.map
    /\ start_pc <= pc
    /\ pc - start_pc <= context_byte_size

\* An open code object whose line-number map gives up to MaxSrcEntries
\* consecutive instructions a source line each; no compilation unit is known.
SrcAddrs == {8, 12, 16}

SrcValues == [file : {"a.c"}, line : 1..4] \cup {[file |-> "b.c", line |-> 2]}

SrcLineMaps ==
  UNION {[D -> SrcValues] : D \in {E \in SUBSET SrcAddrs : Cardinality(E) <= MaxSrcEntries}}

InitSrc ==
  /\ ndebug = TRUE
  /\ m_uri = [protocol |-> "file", offset |-> Absent, size |-> Absent]
  /\ m_load_address = 0
  /\ fileExists = TRUE
  /\ fileBytes = OpenImage
  /\ memBytes = <<>>
  /\ symtab = <<>>
  /\ layout = [insn_size |-> 4, readable_end |-> 200]
  /\ \E lnmap \in SrcLineMaps :
       /\ dwarf = DwarfOf(lnmap, EmptyMap)
       /\ m_line_number_map = [has |-> TRUE, map |-> lnmap]
  /\ m_compilation_unit_low_high_pc_map = [has |-> TRUE, map |-> EmptyMap]
  /\ m_fd = 1
  /\ m_mem_size = ScanPhdrs(OpenImage, 0, 0).size
  /\ m_symbol_map = NoOptional
  /\ fds = MapPut(EmptyMap, 1, OpenImage)
  /\ nOpens = 1
  /\ nIO = 2
  /\ openExit = "opened"
  /\ ctl = "idle"
  /\ invalidDeref = FALSE
  /\ symQuery = NoQuery
  /\ symResult = NoSymbol
  /\ pc = 0
  /\ cu_offset = 0
  /\ visits = <<>>
  /\ start_pc = 0
  /\ end_pc = 0
  /\ listing = <<>>
  /\ agentStatus = "AGENT_STATUS_ACTIVE"
  /\ pQueueList = <<>>
  /\ faultyWaves = EmptyMap
  /\ nScans = 0
  /\ InitHandler
  /\ InitLife

NextSrc == disassemble_call({8, 12}) \/ disassemble_report

SpecSrc == InitSrc /\ [][NextSrc]_vars

\* Positions of the listing at which an instruction address with a line
\* entry was reached.
EntryItems == {i \in CursorItems : listing[i].n \in DOMAIN m_line_number_map.map}

\* The entry reached last before position i (0: none).
PrevEntryItem(i) ==
  LET before == {j \in EntryItems : j < i}
  IN IF before = {} THEN 0 ELSE CHOOSE j \in before : \A k \in before : k <= j

\* The cursor position before position i (0: none).
PrevCursorItem(i) ==
  LET before == {j \in CursorItems : j < i}
  IN IF before = {} THEN 0 ELSE CHOOSE j \in before : \A k \in before : k <= j

\* The source lines printed for the entry reached at position i.
BlockLines(i) ==
  {listing[j].n : j \in {k \in (PrevCursorItem(i) + 1)..(i - 1) : listing[k].kind = "line"}}

HasOwnAddress(file, n) ==
  \E a \in DOMAIN m_line_number_map.map :
    m_line_number_map.map[a] = [file |-> file, line |-> n]

\* C15 (as stated): at an entry (file, L) reached after an entry (file, P)
\* with L > P, the block printed consists of exactly the lines n, P < n <= L,
\* with n = L or no address of the line map mapped to (file, n).
C15_SourceBlock ==
  (ReportDone /\ m_line_number_map.has) =>
    \A i \in EntryItems :
      PrevEntryItem(i) # 0 =>
        LET e == m_line_number_map.map[listing[i].n]
            prev == m_line_number_map.map[listing[PrevEntryItem(i)].n]
        IN (e.file = prev.file /\ e.line > prev.line) =>
             BlockLines(i) =
               {n \in (prev.line + 1)..e.line : n = e.line \/ ~HasOwnAddress(e.file, n)}
====
